---- MODULE Spec2Model ----
(***************************************************************************)
(* A model of csvtools: the spreadsheet converter (to_xlsx), the database  *)
(* importer (to_sqlite), and the two pure helpers they rest on,            *)
(* getFileNames and sanitizeName.  A string is a sequence of one-character *)
(* strings, so that length, slicing, suffix tests and character classes    *)
(* are computed the way the Go code computes them.                         *)
(***************************************************************************)
EXTENDS Integers, Sequences, FiniteSets, TLC

VARIABLES
    tool,           \* which program runs: "to_xlsx", "to_sqlite", or a helper under test
    pc,             \* position of the running program
    exitCode,       \* the process's exit status, meaningful once pc = "exited" or "done"
    errLog,         \* the last error message reported ("" when none)
    srcDir,         \* value of the -src flag
    destDir,        \* value of the -dest flag
    dir,            \* listing of the source directory: sequence of [name, isDir]
    idx,            \* index of the file being processed (fileMetadata or dir)
    handles,        \* indices of the csv files whose handle is open
    fileMetadata,   \* to_xlsx: result of getFileNames
    workbook,       \* to_xlsx: the in-memory workbook, a sequence of [name, cells]
    rowIdx,         \* to_xlsx: row counter of the current file
    content,        \* to_xlsx: per file, the lines the scanner has returned
    saved,          \* to_xlsx: <<>> or <<workbook written by SaveAs>>
    header,         \* to_sqlite: header record of the current file
    sanitizedHeaders, \* to_sqlite: column names of the current file
    tableName,      \* to_sqlite: table name of the current file
    err,            \* to_sqlite: processCSVFile's function-level err variable
    retErr,         \* to_sqlite: the value processCSVFile returns
    tx,             \* to_sqlite: transaction of the current file
    txRows,         \* to_sqlite: rows inserted in the open transaction
    records,        \* to_sqlite: data records read from the current file
    insertedRows,   \* to_sqlite: processCSVFile's insertedRows counter
    persisted,      \* to_sqlite: per file, the number of its rows committed to the database
    outcome,        \* to_sqlite: per file, "" (not processed), "ok" or "error" as seen by main
    arg,            \* helper under test: the input
    res             \* helper under test: the result

vars == <<tool, pc, exitCode, errLog, srcDir, destDir, dir, idx, handles,
          fileMetadata, workbook, rowIdx, content, saved,
          header, sanitizedHeaders, tableName, err, retErr, tx, txRows,
          records, insertedRows, persisted, outcome, arg, res>>

xlsxVars == <<fileMetadata, workbook, rowIdx, content, saved>>
sqliteVars == <<header, sanitizedHeaders, tableName, err, retErr, tx, txRows,
                records, insertedRows, persisted, outcome>>
helperVars == <<arg, res>>

-----------------------------------------------------------------------------
(* Bounds of the model. *)
MaxLen == 4         \* longest input string given to sanitizeName
MaxEntries == 2     \* most entries in a source directory of a tool run
MaxListing == 3     \* most entries in a directory given to getFileNames alone
MaxLines == 2       \* most lines the scanner returns for one file (to_xlsx)
MaxRows == 2        \* most data records read from one file (to_sqlite)
MaxHeader == 2      \* most header fields
MaxFields == 3      \* most fields in a data record

-----------------------------------------------------------------------------
(* Strings. *)
Lower == {"a","b","c","d","e","f","g","h","i","j","k","l","m",
          "n","o","p","q","r","s","t","u","v","w","x","y","z"}
Upper == {"A","B","C","D","E","F","G","H","I","J","K","L","M",
          "N","O","P","Q","R","S","T","U","V","W","X","Y","Z"}
Digits == {"0","1","2","3","4","5","6","7","8","9"}

RECURSIVE SeqsUpTo(_, _)
SeqsUpTo(S, n) ==
    IF n = 0 THEN {<<>>}
    ELSE LET shorter == SeqsUpTo(S, n - 1)
         IN  shorter \cup {Append(s, c) : s \in {t \in shorter : Len(t) = n - 1}, c \in S}

HasSuffix(s, suffix) ==
    /\ Len(s) >= Len(suffix)
    /\ SubSeq(s, Len(s) - Len(suffix) + 1, Len(s)) = suffix

TrimSuffix(s, suffix) ==
    IF HasSuffix(s, suffix) THEN SubSeq(s, 1, Len(s) - Len(suffix)) ELSE s

\* filepath.Ext: the suffix beginning at the final dot; empty if there is no dot.
Ext(name) ==
    LET dots == {i \in 1..Len(name) : name[i] = "."}
    IN  IF dots = {} THEN <<>>
        ELSE LET last == CHOOSE i \in dots : \A j \in dots : j <= i
             IN  SubSeq(name, last, Len(name))

DotCsv == <<".", "c", "s", "v">>
Slash == <<"/">>

-----------------------------------------------------------------------------
(* sanitizeName *)
WordChar(c) == c \in Lower \cup Upper \cup Digits \cup {"_"}

\* regexp [^a-zA-Z0-9_]+ with ReplaceAllString(name, "_"): every maximal run of
\* characters outside the class becomes one underscore.
RECURSIVE DropRun(_)
DropRun(s) ==
    IF s = <<>> \/ WordChar(Head(s)) THEN s ELSE DropRun(Tail(s))

RECURSIVE ReplaceAllString(_)
ReplaceAllString(s) ==
    IF s = <<>> THEN <<>>
    ELSE IF WordChar(Head(s)) THEN <<Head(s)>> \o ReplaceAllString(Tail(s))
    ELSE <<"_">> \o ReplaceAllString(DropRun(Tail(s)))

RECURSIVE TrimLeft(_, _)
TrimLeft(s, c) ==
    IF s # <<>> /\ Head(s) = c THEN TrimLeft(Tail(s), c) ELSE s

RECURSIVE TrimRight(_, _)
TrimRight(s, c) ==
    IF s # <<>> /\ s[Len(s)] = c THEN TrimRight(SubSeq(s, 1, Len(s) - 1), c) ELSE s

\* strings.Trim(s, "_")
Trim(s, c) == TrimRight(TrimLeft(s, c), c)

unnamed_column == <<"u","n","n","a","m","e","d","_","c","o","l","u","m","n">>
default_table == <<"d","e","f","a","u","l","t","_","t","a","b","l","e">>

sanitizeName(name) ==
    LET replaced == ReplaceAllString(name)
        prefixed == IF Len(replaced) > 0 /\ replaced[1] \in Digits
                    THEN <<"_">> \o replaced ELSE replaced
        sanitized == Trim(prefixed, "_")
    IN  IF sanitized = <<>> THEN unnamed_column ELSE sanitized

\* processCSVFile's table name: the sanitized base name, with its own fallback.
TableNameOf(fileName) ==
    LET name == sanitizeName(TrimSuffix(fileName, Ext(fileName)))
    IN  IF name = <<>> THEN default_table ELSE name

-----------------------------------------------------------------------------
(* getFileNames, and the importer's own file filter *)
\* Mutation of getFileNames: the length test is >= 4, so a file named ".csv"
\* is listed with an empty NameWithoutExt.
RECURSIVE getFileNamesAtLeast4(_, _)
getFileNamesAtLeast4(directory, files) ==
    IF files = <<>> THEN <<>>
    ELSE LET file == Head(files)
             name == file.name
             rest == getFileNamesAtLeast4(directory, Tail(files))
         IN  IF ~file.isDir /\ Len(name) >= 4
                           /\ SubSeq(name, Len(name) - 3, Len(name)) = DotCsv
             THEN <<[NameWithoutExt |-> SubSeq(name, 1, Len(name) - 4),
                     FullPath |-> directory \o Slash \o name]>> \o rest
             ELSE rest

RECURSIVE getFileNames(_, _)
getFileNames(directory, files) ==
    IF files = <<>> THEN <<>>
    ELSE LET file == Head(files)
             name == file.name
             rest == getFileNames(directory, Tail(files))
         IN  IF ~file.isDir /\ Len(name) > 4
                           /\ SubSeq(name, Len(name) - 3, Len(name)) = DotCsv
             THEN <<[NameWithoutExt |-> SubSeq(name, 1, Len(name) - 4),
                     FullPath |-> directory \o Slash \o name]>> \o rest
             ELSE rest

\* main (to_sqlite): !fileInfo.IsDir() && strings.HasSuffix(fileInfo.Name(), ".csv")
ImporterSelects(file) == ~file.isDir /\ HasSuffix(file.name, DotCsv)

-----------------------------------------------------------------------------
(* Inputs: names and directories.  os.ReadDir and ioutil.ReadDir return the *)
(* entries sorted by file name, so a directory is a subsequence of a pool   *)
(* that is listed in byte order.                                            *)
In == <<"i", "n">>
Out == <<"o", "u", "t">>
Unknown == <<"u","n","k","n","o","w","n">>
Sheet1 == <<"S","h","e","e","t","1">>

File(name) == [name |-> name, isDir |-> FALSE]
Dir(name) == [name |-> name, isDir |-> TRUE]

ToolPool ==
    << File(Sheet1 \o DotCsv),
       File(<<"_","_","_">> \o DotCsv),
       File(<<"b",".","t","x","t">>),
       Dir(<<"d">> \o DotCsv) >>

EnumPool ==
    << File(DotCsv),
       File(Sheet1 \o DotCsv),
       File(<<"_","_","_">> \o DotCsv),
       File(<<"a">> \o DotCsv \o <<"x">>),
       File(<<"b",".","t","x","t">>),
       File(<<"c","s","v">>),
       Dir(<<"d">> \o DotCsv) >>

RECURSIVE Pick(_, _, _)
Pick(pool, I, i) ==
    IF i > Len(pool) THEN <<>>
    ELSE (IF i \in I THEN <<pool[i]>> ELSE <<>>) \o Pick(pool, I, i + 1)

Directories(pool, n) ==
    {Pick(pool, I, 1) : I \in {J \in SUBSET (1..Len(pool)) : Cardinality(J) <= n}}

SanitizeAlphabet == {"a", "1", "_", "!"}

-----------------------------------------------------------------------------
(* Values shared by the initial states. *)
Nil == ""

NoTx == [begun |-> FALSE, open |-> FALSE, commits |-> 0, rollbacks |-> 0]

ProcessIdle ==
    /\ exitCode = 0
    /\ errLog = ""
    /\ idx = 0
    /\ handles = {}

XlsxIdle ==
    /\ fileMetadata = <<>>
    /\ workbook = <<>>
    /\ rowIdx = 0
    /\ content = <<>>
    /\ saved = <<>>

SqliteIdle ==
    /\ header = <<>>
    /\ sanitizedHeaders = <<>>
    /\ tableName = <<>>
    /\ err = Nil
    /\ retErr = Nil
    /\ tx = NoTx
    /\ txRows = <<>>
    /\ records = <<>>
    /\ insertedRows = 0
    /\ persisted = <<>>
    /\ outcome = <<>>

HelperIdle ==
    /\ arg = <<>>
    /\ res = <<>>

-----------------------------------------------------------------------------
(* sanitizeName applied to every string over a small alphabet. *)
InitSanitize ==
    /\ tool = "sanitizeName"
    /\ pc = "call"
    /\ arg \in SeqsUpTo(SanitizeAlphabet, MaxLen)
    /\ res = <<>>
    /\ srcDir = <<>>
    /\ destDir = <<>>
    /\ dir = <<>>
    /\ ProcessIdle /\ XlsxIdle /\ SqliteIdle

CallSanitizeName ==
    /\ tool = "sanitizeName"
    /\ pc = "call"
    /\ res' = sanitizeName(arg)
    /\ pc' = "returned"
    /\ UNCHANGED <<tool, exitCode, errLog, srcDir, destDir, dir, idx, handles, arg>>
    /\ UNCHANGED <<xlsxVars, sqliteVars>>

SpecSanitize == InitSanitize /\ [][CallSanitizeName]_vars

-----------------------------------------------------------------------------
(* getFileNames and the importer's filter applied to the same directory. *)
InitEnum ==
    /\ tool = "getFileNames"
    /\ pc = "call"
    /\ srcDir = In
    /\ destDir = <<>>
    /\ dir \in Directories(EnumPool, MaxListing)
    /\ ProcessIdle /\ XlsxIdle /\ SqliteIdle /\ HelperIdle

CallGetFileNames ==
    /\ tool = "getFileNames"
    /\ pc = "call"
    /\ res' = getFileNames(srcDir, dir)
    /\ pc' = "listed"
    /\ UNCHANGED <<tool, exitCode, errLog, srcDir, destDir, dir, idx, handles, arg>>
    /\ UNCHANGED <<xlsxVars, sqliteVars>>

\* The files the importer's loop hands to processCSVFile, as filepath.Join paths.
CallImporterFilter ==
    /\ tool = "getFileNames"
    /\ pc = "listed"
    /\ arg' = SelectSeq(dir, ImporterSelects)
    /\ pc' = "returned"
    /\ UNCHANGED <<tool, exitCode, errLog, srcDir, destDir, dir, idx, handles, res>>
    /\ UNCHANGED <<xlsxVars, sqliteVars>>

NextEnum == CallGetFileNames \/ CallImporterFilter

SpecEnum == InitEnum /\ [][NextEnum]_vars

-----------------------------------------------------------------------------
(* excelize: the workbook operations to_xlsx calls. *)
UpperSeq == <<"A","B","C","D","E","F","G","H","I","J","K","L","M",
              "N","O","P","Q","R","S","T","U","V","W","X","Y","Z">>
LowerSeq == <<"a","b","c","d","e","f","g","h","i","j","k","l","m",
              "n","o","p","q","r","s","t","u","v","w","x","y","z">>

FoldChar(c) ==
    IF c \in Upper THEN LowerSeq[CHOOSE i \in 1..26 : UpperSeq[i] = c] ELSE c

\* strings.EqualFold, which excelize's GetSheetIndex compares sheet names with
EqualFold(a, b) ==
    /\ Len(a) = Len(b)
    /\ \A i \in 1..Len(a) : FoldChar(a[i]) = FoldChar(b[i])

\* excelize.ColumnNumberToName
RECURSIVE ColumnNumberToName(_)
ColumnNumberToName(num) ==
    IF num <= 0 THEN <<>>
    ELSE ColumnNumberToName((num - 1) \div 26) \o <<UpperSeq[((num - 1) % 26) + 1]>>

\* excelize.CoordinatesToCellName: the cell reference of (col, row), e.g. "B3"
CoordinatesToCellName(col, row) == [col |-> ColumnNumberToName(col), row |-> row]

NoCells == [c \in {} |-> <<>>]

\* excelize.NewFile: a workbook holding the default sheet
NewFile == <<[name |-> Sheet1, cells |-> NoCells]>>

\* excelize.GetSheetIndex, 1-based here; 0 when there is no such sheet
GetSheetIndex(wb, sheet) ==
    IF \E i \in 1..Len(wb) : EqualFold(wb[i].name, sheet)
    THEN CHOOSE i \in 1..Len(wb) : EqualFold(wb[i].name, sheet)
    ELSE 0

\* excelize.NewSheet: an existing sheet of that name is kept as it is
NewSheet(wb, sheet) ==
    IF GetSheetIndex(wb, sheet) # 0 THEN wb
    ELSE Append(wb, [name |-> sheet, cells |-> NoCells])

\* excelize.SetCellStr
SetCellStr(wb, sheet, cellRef, value) ==
    [wb EXCEPT ![GetSheetIndex(wb, sheet)].cells = (cellRef :> value) @@ @]

\* excelize.DeleteSheet: a no-op on the only sheet and on a missing sheet
DeleteSheet(wb, sheet) ==
    LET i == GetSheetIndex(wb, sheet)
    IN  IF Len(wb) = 1 \/ i = 0 THEN wb
        ELSE SubSeq(wb, 1, i - 1) \o SubSeq(wb, i + 1, Len(wb))

\* strings.Split(line, ",")
RECURSIVE Split(_)
Split(line) ==
    LET commas == {i \in 1..Len(line) : line[i] = ","}
    IN  IF commas = {} THEN <<line>>
        ELSE LET first == CHOOSE i \in commas : \A j \in commas : i <= j
             IN  <<SubSeq(line, 1, first - 1)>> \o Split(SubSeq(line, first + 1, Len(line)))

\* The lines a csv file may hold: "", "x", "x,y" and "," .
Lines == { <<>>, <<"x">>, <<"x", ",", "y">>, <<",">> }

-----------------------------------------------------------------------------
(* to_xlsx: main of the spreadsheet converter. *)
InitXlsx ==
    /\ tool = "to_xlsx"
    /\ pc = "flags"
    /\ srcDir \in {Unknown, In}
    /\ destDir \in {Unknown, Out}
    /\ dir \in Directories(ToolPool, MaxEntries)
    /\ ProcessIdle /\ XlsxIdle /\ SqliteIdle /\ HelperIdle

\* logger.Error(msg) followed by os.Exit(1)
Fatal(msg) ==
    /\ errLog' = msg
    /\ exitCode' = 1
    /\ pc' = "exited"

XFlagsMissing ==
    /\ tool = "to_xlsx" /\ pc = "flags"
    /\ srcDir = Unknown \/ destDir = Unknown
    /\ Fatal("src and dst are required")
    /\ UNCHANGED <<tool, srcDir, destDir, dir, idx, handles, xlsxVars, sqliteVars, helperVars>>

XFlagsGiven ==
    /\ tool = "to_xlsx" /\ pc = "flags"
    /\ ~(srcDir = Unknown \/ destDir = Unknown)
    /\ pc' = "list"
    /\ UNCHANGED <<tool, exitCode, errLog, srcDir, destDir, dir, idx, handles>>
    /\ UNCHANGED <<xlsxVars, sqliteVars, helperVars>>

\* getFileNames returns an error: ioutil.ReadDir failed
XListFails ==
    /\ tool = "to_xlsx" /\ pc = "list"
    /\ Fatal("Failed to get names of CSV files")
    /\ UNCHANGED <<tool, srcDir, destDir, dir, idx, handles, xlsxVars, sqliteVars, helperVars>>

XListEmpty ==
    /\ tool = "to_xlsx" /\ pc = "list"
    /\ Len(getFileNames(srcDir, dir)) = 0
    /\ Fatal("No CSV files found")
    /\ UNCHANGED <<tool, srcDir, destDir, dir, idx, handles, xlsxVars, sqliteVars, helperVars>>

XList ==
    /\ tool = "to_xlsx" /\ pc = "list"
    /\ Len(getFileNames(srcDir, dir)) # 0
    /\ fileMetadata' = getFileNames(srcDir, dir)
    /\ workbook' = NewFile
    /\ content' = [f \in 1..Len(fileMetadata') |-> <<>>]
    /\ idx' = 1
    /\ pc' = "sheet"
    /\ UNCHANGED <<tool, exitCode, errLog, srcDir, destDir, dir, handles, rowIdx, saved>>
    /\ UNCHANGED <<sqliteVars, helperVars>>

sheetName == fileMetadata[idx].NameWithoutExt

XNewSheetFails ==
    /\ tool = "to_xlsx" /\ pc = "sheet"
    /\ idx <= Len(fileMetadata)
    /\ Fatal("Failed to create sheet")
    /\ UNCHANGED <<tool, srcDir, destDir, dir, idx, handles, xlsxVars, sqliteVars, helperVars>>

XNewSheet ==
    /\ tool = "to_xlsx" /\ pc = "sheet"
    /\ idx <= Len(fileMetadata)
    /\ workbook' = NewSheet(workbook, sheetName)
    /\ pc' = "open"
    /\ UNCHANGED <<tool, exitCode, errLog, srcDir, destDir, dir, idx, handles>>
    /\ UNCHANGED <<fileMetadata, rowIdx, content, saved, sqliteVars, helperVars>>

XOpenFails ==
    /\ tool = "to_xlsx" /\ pc = "open"
    /\ Fatal("Failed to open csvFile")
    /\ UNCHANGED <<tool, srcDir, destDir, dir, idx, handles, xlsxVars, sqliteVars, helperVars>>

XOpen ==
    /\ tool = "to_xlsx" /\ pc = "open"
    /\ handles' = handles \cup {idx}
    /\ rowIdx' = 1
    /\ pc' = "scan"
    /\ UNCHANGED <<tool, exitCode, errLog, srcDir, destDir, dir, idx>>
    /\ UNCHANGED <<fileMetadata, workbook, content, saved, sqliteVars, helperVars>>

\* for _, cell := range cells: SetCellStr at (cellIdx, rowIdx), cellIdx++
RECURSIVE WriteCells(_, _, _, _, _)
WriteCells(wb, sheet, cells, cellIdx, row) ==
    IF cells = <<>> THEN wb
    ELSE WriteCells(SetCellStr(wb, sheet, CoordinatesToCellName(cellIdx, row), Head(cells)),
                    sheet, Tail(cells), cellIdx + 1, row)

\* scanner.Scan returns a line and every cell of it is written
XScanLine(line) ==
    /\ tool = "to_xlsx" /\ pc = "scan"
    /\ Len(content[idx]) < MaxLines
    /\ content' = [content EXCEPT ![idx] = Append(@, line)]
    /\ workbook' = WriteCells(workbook, sheetName, Split(line), 1, rowIdx)
    /\ rowIdx' = rowIdx + 1
    /\ UNCHANGED <<tool, pc, exitCode, errLog, srcDir, destDir, dir, idx, handles>>
    /\ UNCHANGED <<fileMetadata, saved, sqliteVars, helperVars>>

\* scanner.Scan returns a line and SetCellStr fails on its k-th cell
XSetCellFails(line, k) ==
    /\ tool = "to_xlsx" /\ pc = "scan"
    /\ Len(content[idx]) < MaxLines
    /\ content' = [content EXCEPT ![idx] = Append(@, line)]
    /\ workbook' = WriteCells(workbook, sheetName, SubSeq(Split(line), 1, k - 1), 1, rowIdx)
    /\ Fatal("Failed to set cell value")
    /\ UNCHANGED <<tool, srcDir, destDir, dir, idx, handles>>
    /\ UNCHANGED <<fileMetadata, rowIdx, saved, sqliteVars, helperVars>>

\* Mutation of XScanFails: the error is logged but os.Exit(1) is missing, and
\* the run goes on to close the file.
XScanFailsGoesOn ==
    /\ tool = "to_xlsx" /\ pc = "scan"
    /\ errLog' = "Error reading csvFile"
    /\ pc' = "close"
    /\ UNCHANGED <<tool, exitCode, srcDir, destDir, dir, idx, handles>>
    /\ UNCHANGED <<xlsxVars, sqliteVars, helperVars>>

\* scanner.Scan returns false and scanner.Err() is an error
XScanFails ==
    /\ tool = "to_xlsx" /\ pc = "scan"
    /\ Fatal("Error reading csvFile")
    /\ UNCHANGED <<tool, srcDir, destDir, dir, idx, handles, xlsxVars, sqliteVars, helperVars>>

\* scanner.Scan returns false at the end of the file
XScanEOF ==
    /\ tool = "to_xlsx" /\ pc = "scan"
    /\ pc' = "close"
    /\ UNCHANGED <<tool, exitCode, errLog, srcDir, destDir, dir, idx, handles>>
    /\ UNCHANGED <<xlsxVars, sqliteVars, helperVars>>

\* csvFile.Close() returns an error; the descriptor is released all the same
XCloseFails ==
    /\ tool = "to_xlsx" /\ pc = "close"
    /\ handles' = handles \ {idx}
    /\ Fatal("Failed to close csvFile")
    /\ UNCHANGED <<tool, srcDir, destDir, dir, idx, xlsxVars, sqliteVars, helperVars>>

XClose ==
    /\ tool = "to_xlsx" /\ pc = "close"
    /\ handles' = handles \ {idx}
    /\ idx' = idx + 1
    /\ pc' = "sheet"
    /\ UNCHANGED <<tool, exitCode, errLog, srcDir, destDir, dir>>
    /\ UNCHANGED <<xlsxVars, sqliteVars, helperVars>>

\* after the loop: DeleteSheet("Sheet1"), then SaveAs fails
XSaveFails ==
    /\ tool = "to_xlsx" /\ pc = "sheet"
    /\ idx > Len(fileMetadata)
    /\ workbook' = DeleteSheet(workbook, Sheet1)
    /\ Fatal("Failed to save xlsx file")
    /\ UNCHANGED <<tool, srcDir, destDir, dir, idx, handles>>
    /\ UNCHANGED <<fileMetadata, rowIdx, content, saved, sqliteVars, helperVars>>

\* after the loop: DeleteSheet("Sheet1"), SaveAs, and main returns
XSave ==
    /\ tool = "to_xlsx" /\ pc = "sheet"
    /\ idx > Len(fileMetadata)
    /\ workbook' = DeleteSheet(workbook, Sheet1)
    /\ saved' = <<workbook'>>
    /\ pc' = "done"
    /\ exitCode' = 0
    /\ UNCHANGED <<tool, errLog, srcDir, destDir, dir, idx, handles>>
    /\ UNCHANGED <<fileMetadata, rowIdx, content, sqliteVars, helperVars>>

NextXlsx ==
    \/ XFlagsMissing \/ XFlagsGiven
    \/ XListFails \/ XListEmpty \/ XList
    \/ XNewSheetFails \/ XNewSheet
    \/ XOpenFails \/ XOpen
    \/ \E line \in Lines : XScanLine(line)
    \/ \E line \in Lines : \E k \in 1..Len(Split(line)) : XSetCellFails(line, k)
    \/ XScanFails \/ XScanEOF
    \/ XCloseFails \/ XClose
    \/ XSaveFails \/ XSave

SpecXlsx == InitXlsx /\ [][NextXlsx]_vars

-----------------------------------------------------------------------------
(* to_sqlite: main of the database importer, and processCSVFile. *)

\* Field j of a data record, as text: j letters x.  Padding is the empty string.
RECURSIVE Field(_)
Field(j) == IF j = 0 THEN <<>> ELSE Append(Field(j - 1), "x")

Record(n) == [j \in 1..n |-> Field(j)]

\* The header fields a file may hold, in order: "a", "1", "a b", "", "b" ...
HeaderPool == << <<"a">>, <<"1">>, <<"a", " ", "b">>, <<>>, <<"b">>, <<"c">> >>

Header(n) == SubSeq(HeaderPool, 1, n)

InitSqlite ==
    /\ tool = "to_sqlite"
    /\ pc = "flags"
    /\ srcDir \in {<<>>, In}
    /\ destDir \in {<<>>, Out}
    /\ dir \in Directories(ToolPool, MaxEntries)
    /\ ProcessIdle /\ XlsxIdle /\ SqliteIdle /\ HelperIdle

mainVars == <<tool, srcDir, destDir, dir>>
procVars == <<header, sanitizedHeaders, tableName, err, tx, txRows, records, insertedRows>>

\* fmt.Println(msg) followed by os.Exit(1)
ExitOne(msg) ==
    /\ errLog' = msg
    /\ exitCode' = 1
    /\ pc' = "exited"

\* fmt.Printf(msg) followed by return from main
ReturnFromMain(msg) ==
    /\ errLog' = msg
    /\ exitCode' = 0
    /\ pc' = "exited"

SFlagsMissing ==
    /\ tool = "to_sqlite" /\ pc = "flags"
    /\ srcDir = <<>> \/ destDir = <<>>
    /\ ExitOne("sourceDir and destDir are required")
    /\ UNCHANGED <<mainVars, idx, handles, xlsxVars, sqliteVars, helperVars>>

SFlagsGiven ==
    /\ tool = "to_sqlite" /\ pc = "flags"
    /\ ~(srcDir = <<>> \/ destDir = <<>>)
    /\ pc' = "sql.Open"
    /\ UNCHANGED <<mainVars, exitCode, errLog, idx, handles, xlsxVars, sqliteVars, helperVars>>

SOpenDbFails ==
    /\ tool = "to_sqlite" /\ pc = "sql.Open"
    /\ ReturnFromMain("Error opening database")
    /\ UNCHANGED <<mainVars, idx, handles, xlsxVars, sqliteVars, helperVars>>

SOpenDb ==
    /\ tool = "to_sqlite" /\ pc = "sql.Open"
    /\ pc' = "db.Ping"
    /\ UNCHANGED <<mainVars, exitCode, errLog, idx, handles, xlsxVars, sqliteVars, helperVars>>

SPingFails ==
    /\ tool = "to_sqlite" /\ pc = "db.Ping"
    /\ ReturnFromMain("Error connecting to database")
    /\ UNCHANGED <<mainVars, idx, handles, xlsxVars, sqliteVars, helperVars>>

SPing ==
    /\ tool = "to_sqlite" /\ pc = "db.Ping"
    /\ pc' = "os.ReadDir"
    /\ UNCHANGED <<mainVars, exitCode, errLog, idx, handles, xlsxVars, sqliteVars, helperVars>>

SReadDirFails ==
    /\ tool = "to_sqlite" /\ pc = "os.ReadDir"
    /\ ReturnFromMain("Error reading CSV directory")
    /\ UNCHANGED <<mainVars, idx, handles, xlsxVars, sqliteVars, helperVars>>

SReadDir ==
    /\ tool = "to_sqlite" /\ pc = "os.ReadDir"
    /\ idx' = 1
    /\ persisted' = [f \in 1..Len(dir) |-> 0]
    /\ outcome' = [f \in 1..Len(dir) |-> ""]
    /\ pc' = "loop"
    /\ UNCHANGED <<mainVars, exitCode, errLog, handles, xlsxVars, helperVars>>
    /\ UNCHANGED <<procVars, retErr>>

\* an entry the filter rejects
SLoopSkip ==
    /\ tool = "to_sqlite" /\ pc = "loop"
    /\ idx <= Len(dir)
    /\ ~ImporterSelects(dir[idx])
    /\ idx' = idx + 1
    /\ UNCHANGED <<mainVars, pc, exitCode, errLog, handles, xlsxVars, sqliteVars, helperVars>>

\* an entry the filter accepts: processCSVFile is called
SLoopProcess ==
    /\ tool = "to_sqlite" /\ pc = "loop"
    /\ idx <= Len(dir)
    /\ ImporterSelects(dir[idx])
    /\ pc' = "os.Open"
    /\ UNCHANGED <<mainVars, exitCode, errLog, idx, handles, xlsxVars, sqliteVars, helperVars>>

\* the loop is over: the summary is printed and main returns
SSummary ==
    /\ tool = "to_sqlite" /\ pc = "loop"
    /\ idx > Len(dir)
    /\ pc' = "done"
    /\ exitCode' = 0
    /\ UNCHANGED <<mainVars, errLog, idx, handles, xlsxVars, sqliteVars, helperVars>>

\* return e: the deferred calls run next
Return(e) ==
    /\ retErr' = e
    /\ pc' = "deferred"

POpenFails ==
    /\ tool = "to_sqlite" /\ pc = "os.Open"
    /\ err' = "failed to open CSV file"
    /\ Return(err')
    /\ UNCHANGED <<mainVars, exitCode, errLog, idx, handles, xlsxVars, helperVars>>
    /\ UNCHANGED <<header, sanitizedHeaders, tableName, tx, txRows, records, insertedRows>>
    /\ UNCHANGED <<persisted, outcome>>

POpen ==
    /\ tool = "to_sqlite" /\ pc = "os.Open"
    /\ err' = Nil
    /\ handles' = handles \cup {idx}
    /\ pc' = "header"
    /\ UNCHANGED <<mainVars, exitCode, errLog, idx, xlsxVars, helperVars>>
    /\ UNCHANGED <<header, sanitizedHeaders, tableName, tx, txRows, records, insertedRows>>
    /\ UNCHANGED <<retErr, persisted, outcome>>

\* reader.Read() fails on the header: a parse error, or io.EOF on an empty file
PHeaderFails ==
    /\ tool = "to_sqlite" /\ pc = "header"
    /\ err' = "failed to read header"
    /\ Return(err')
    /\ UNCHANGED <<mainVars, exitCode, errLog, idx, handles, xlsxVars, helperVars>>
    /\ UNCHANGED <<header, sanitizedHeaders, tableName, tx, txRows, records, insertedRows>>
    /\ UNCHANGED <<persisted, outcome>>

\* the header is read; column names and the table name are computed
PHeader(n) ==
    /\ tool = "to_sqlite" /\ pc = "header"
    /\ err' = Nil
    /\ header' = Header(n)
    /\ sanitizedHeaders' = [i \in 1..n |-> sanitizeName(header'[i])]
    /\ tableName' = TableNameOf(dir[idx].name)
    /\ pc' = "create"
    /\ UNCHANGED <<mainVars, exitCode, errLog, idx, handles, xlsxVars, helperVars>>
    /\ UNCHANGED <<tx, txRows, records, insertedRows, retErr, persisted, outcome>>

PCreateFails ==
    /\ tool = "to_sqlite" /\ pc = "create"
    /\ err' = "failed to create table"
    /\ Return(err')
    /\ UNCHANGED <<mainVars, exitCode, errLog, idx, handles, xlsxVars, helperVars>>
    /\ UNCHANGED <<header, sanitizedHeaders, tableName, tx, txRows, records, insertedRows>>
    /\ UNCHANGED <<persisted, outcome>>

PCreate ==
    /\ tool = "to_sqlite" /\ pc = "create"
    /\ err' = Nil
    /\ pc' = "begin"
    /\ UNCHANGED <<mainVars, exitCode, errLog, idx, handles, xlsxVars, helperVars>>
    /\ UNCHANGED <<header, sanitizedHeaders, tableName, tx, txRows, records, insertedRows>>
    /\ UNCHANGED <<retErr, persisted, outcome>>

PBeginFails ==
    /\ tool = "to_sqlite" /\ pc = "begin"
    /\ err' = "failed to begin transaction"
    /\ Return(err')
    /\ UNCHANGED <<mainVars, exitCode, errLog, idx, handles, xlsxVars, helperVars>>
    /\ UNCHANGED <<header, sanitizedHeaders, tableName, tx, txRows, records, insertedRows>>
    /\ UNCHANGED <<persisted, outcome>>

\* db.Begin() succeeds and the commit-or-rollback closure is deferred
PBegin ==
    /\ tool = "to_sqlite" /\ pc = "begin"
    /\ err' = Nil
    /\ tx' = [begun |-> TRUE, open |-> TRUE, commits |-> 0, rollbacks |-> 0]
    /\ pc' = "prepare"
    /\ UNCHANGED <<mainVars, exitCode, errLog, idx, handles, xlsxVars, helperVars>>
    /\ UNCHANGED <<header, sanitizedHeaders, tableName, txRows, records, insertedRows>>
    /\ UNCHANGED <<retErr, persisted, outcome>>

\* stmt, err := tx.Prepare(insertSQL) assigns the function-level err
PPrepareFails ==
    /\ tool = "to_sqlite" /\ pc = "prepare"
    /\ err' = "failed to prepare insert statement"
    /\ Return(err')
    /\ UNCHANGED <<mainVars, exitCode, errLog, idx, handles, xlsxVars, helperVars>>
    /\ UNCHANGED <<header, sanitizedHeaders, tableName, tx, txRows, records, insertedRows>>
    /\ UNCHANGED <<persisted, outcome>>

PPrepare ==
    /\ tool = "to_sqlite" /\ pc = "prepare"
    /\ err' = Nil
    /\ pc' = "read"
    /\ UNCHANGED <<mainVars, exitCode, errLog, idx, handles, xlsxVars, helperVars>>
    /\ UNCHANGED <<header, sanitizedHeaders, tableName, tx, txRows, records, insertedRows>>
    /\ UNCHANGED <<retErr, persisted, outcome>>

\* record, err := reader.Read() declares a new err in the loop body: the
\* function-level err, which the deferred closure reads, is not assigned.
PReadEOF ==
    /\ tool = "to_sqlite" /\ pc = "read"
    /\ Return(Nil)
    /\ UNCHANGED <<mainVars, exitCode, errLog, idx, handles, xlsxVars, helperVars>>
    /\ UNCHANGED <<procVars, persisted, outcome>>

PReadFails ==
    /\ tool = "to_sqlite" /\ pc = "read"
    /\ Return("failed to read record")
    /\ UNCHANGED <<mainVars, exitCode, errLog, idx, handles, xlsxVars, helperVars>>
    /\ UNCHANGED <<procVars, persisted, outcome>>

PRead(n) ==
    /\ tool = "to_sqlite" /\ pc = "read"
    /\ Len(records) < MaxRows
    /\ records' = Append(records, Record(n))
    /\ pc' = "exec"
    /\ UNCHANGED <<mainVars, exitCode, errLog, idx, handles, xlsxVars, helperVars>>
    /\ UNCHANGED <<header, sanitizedHeaders, tableName, err, tx, txRows, insertedRows>>
    /\ UNCHANGED <<retErr, persisted, outcome>>

\* for i := len(record); i < n; i++ { record = append(record, "") }
RECURSIVE Pad(_, _)
Pad(record, n) ==
    IF Len(record) < n THEN Pad(Append(record, <<>>), n) ELSE record

\* Mutation of PadOrTruncate: short records are padded, long ones not truncated.
PadOnly(record, n) ==
    IF Len(record) < n THEN Pad(record, n) ELSE record

PadOrTruncate(record, n) ==
    IF Len(record) < n THEN Pad(record, n)
    ELSE IF Len(record) > n THEN SubSeq(record, 1, n)
    ELSE record

\* the values handed to stmt.Exec for the record just read
args == PadOrTruncate(records[Len(records)], Len(sanitizedHeaders))

\* _, err = stmt.Exec(args...) assigns the loop body's err
PExecFails ==
    /\ tool = "to_sqlite" /\ pc = "exec"
    /\ Return("failed to insert row")
    /\ UNCHANGED <<mainVars, exitCode, errLog, idx, handles, xlsxVars, helperVars>>
    /\ UNCHANGED <<procVars, persisted, outcome>>

PExec ==
    /\ tool = "to_sqlite" /\ pc = "exec"
    /\ txRows' = Append(txRows, args)
    /\ insertedRows' = insertedRows + 1
    /\ pc' = "read"
    /\ UNCHANGED <<mainVars, exitCode, errLog, idx, handles, xlsxVars, helperVars>>
    /\ UNCHANGED <<header, sanitizedHeaders, tableName, err, tx, records>>
    /\ UNCHANGED <<retErr, persisted, outcome>>

\* The deferred closure of processCSVFile chooses by the function-level err.
DeferredCommits == tx.begun /\ err = Nil

\* deferred: no transaction was begun; file.Close() if the file was opened
PDeferNoTx ==
    /\ tool = "to_sqlite" /\ pc = "deferred"
    /\ ~tx.begun
    /\ handles' = handles \ {idx}
    /\ pc' = "returned"
    /\ UNCHANGED <<mainVars, exitCode, errLog, idx, xlsxVars, helperVars>>
    /\ UNCHANGED <<procVars, retErr, persisted, outcome>>

\* deferred: stmt.Close(), tx.Rollback(), file.Close()
PDeferRollback ==
    /\ tool = "to_sqlite" /\ pc = "deferred"
    /\ tx.begun /\ ~DeferredCommits
    /\ tx' = [tx EXCEPT !.open = FALSE, !.rollbacks = @ + 1]
    /\ txRows' = <<>>
    /\ handles' = handles \ {idx}
    /\ pc' = "returned"
    /\ UNCHANGED <<mainVars, exitCode, errLog, idx, xlsxVars, helperVars>>
    /\ UNCHANGED <<header, sanitizedHeaders, tableName, err, records, insertedRows>>
    /\ UNCHANGED <<retErr, persisted, outcome>>

\* deferred: stmt.Close(), err = tx.Commit(), file.Close(); ok tells whether
\* the commit succeeds.  The value already returned is not changed by it.
PDeferCommit(ok) ==
    /\ tool = "to_sqlite" /\ pc = "deferred"
    /\ DeferredCommits
    /\ tx' = [tx EXCEPT !.open = FALSE, !.commits = @ + 1]
    /\ persisted' = IF ok THEN [persisted EXCEPT ![idx] = Len(txRows)] ELSE persisted
    /\ err' = IF ok THEN Nil ELSE "commit failed"
    /\ txRows' = <<>>
    /\ handles' = handles \ {idx}
    /\ pc' = "returned"
    /\ UNCHANGED <<mainVars, exitCode, errLog, idx, xlsxVars, helperVars>>
    /\ UNCHANGED <<header, sanitizedHeaders, tableName, records, insertedRows>>
    /\ UNCHANGED <<retErr, outcome>>

\* processCSVFile's frame is gone once main has taken its return value
FramePopped ==
    /\ header' = <<>>
    /\ sanitizedHeaders' = <<>>
    /\ tableName' = <<>>
    /\ err' = Nil
    /\ retErr' = Nil
    /\ tx' = NoTx
    /\ txRows' = <<>>
    /\ records' = <<>>
    /\ insertedRows' = 0

\* Mutation of SAfterError: main stops at the first file that fails.
SAfterErrorStops ==
    /\ tool = "to_sqlite" /\ pc = "returned"
    /\ retErr # Nil
    /\ errLog' = "Error processing"
    /\ outcome' = [outcome EXCEPT ![idx] = "error"]
    /\ exitCode' = 1
    /\ pc' = "exited"
    /\ FramePopped
    /\ UNCHANGED <<mainVars, idx, handles, xlsxVars, helperVars, persisted>>

\* main after processCSVFile returned with an error: report it, next entry
SAfterError ==
    /\ tool = "to_sqlite" /\ pc = "returned"
    /\ retErr # Nil
    /\ errLog' = "Error processing"
    /\ outcome' = [outcome EXCEPT ![idx] = "error"]
    /\ idx' = idx + 1
    /\ pc' = "loop"
    /\ FramePopped
    /\ UNCHANGED <<mainVars, exitCode, handles, xlsxVars, helperVars, persisted>>

\* main after processCSVFile returned nil: next entry
SAfterOk ==
    /\ tool = "to_sqlite" /\ pc = "returned"
    /\ retErr = Nil
    /\ outcome' = [outcome EXCEPT ![idx] = "ok"]
    /\ idx' = idx + 1
    /\ pc' = "loop"
    /\ FramePopped
    /\ UNCHANGED <<mainVars, exitCode, errLog, handles, xlsxVars, helperVars, persisted>>

NextSqlite ==
    \/ SFlagsMissing \/ SFlagsGiven
    \/ SOpenDbFails \/ SOpenDb
    \/ SPingFails \/ SPing
    \/ SReadDirFails \/ SReadDir
    \/ SLoopSkip \/ SLoopProcess \/ SSummary
    \/ POpenFails \/ POpen
    \/ PHeaderFails
    \/ \E n \in 1..MaxHeader : PHeader(n)
    \/ PCreateFails \/ PCreate
    \/ PBeginFails \/ PBegin
    \/ PPrepareFails \/ PPrepare
    \/ PReadEOF \/ PReadFails
    \/ \E n \in 1..MaxFields : PRead(n)
    \/ PExecFails \/ PExec
    \/ PDeferNoTx \/ PDeferRollback
    \/ \E ok \in BOOLEAN : PDeferCommit(ok)
    \/ SAfterError \/ SAfterOk

SpecSqlite == InitSqlite /\ [][NextSqlite]_vars

FairSqlite == SpecSqlite /\ WF_vars(NextSqlite)

-----------------------------------------------------------------------------
(* Either tool on any source directory. *)
Init == InitXlsx \/ InitSqlite

Next == NextXlsx \/ NextSqlite

Spec == Init /\ [][Next]_vars

-----------------------------------------------------------------------------
(* Properties. *)

RowErrors == {"failed to read record", "failed to insert row"}

\* C1: when reading or inserting a data row fails, the file's transaction is
\* rolled back: once processCSVFile has returned, none of that file's rows is
\* persisted.
C1_RowFailureRollsBack ==
    (tool = "to_sqlite" /\ pc = "returned" /\ retErr \in RowErrors)
        => persisted[idx] = 0

Selected == {f \in 1..Len(dir) : ImporterSelects(dir[f])}

AllProcessed == \A f \in Selected : outcome[f] \in {"ok", "error"}

\* C2: a file that fails is reported and does not stop the run: from the
\* return of a failing processCSVFile the run reaches the summary, the error
\* reported and every selected file of the directory processed.
C2_FailureDoesNotStopRun ==
    (tool = "to_sqlite" /\ pc = "returned" /\ retErr # Nil)
        ~> (pc = "done" /\ errLog = "Error processing" /\ AllProcessed)

\* C2 witness: the summary is reached after a file failed and a later one succeeded.
C2_Witness ==
    /\ tool = "to_sqlite" /\ pc = "done"
    /\ \E f, g \in Selected : f < g /\ outcome[f] = "error" /\ outcome[g] = "ok"

\* C3: the importer exits with a non-zero status when a flag is missing and
\* when the database cannot be opened or connected to.
C3_NonZeroExit ==
    (/\ tool = "to_sqlite" /\ pc = "exited"
     /\ errLog \in {"sourceDir and destDir are required",
                    "Error opening database",
                    "Error connecting to database"})
        => exitCode # 0

IsIdentifier(s) ==
    /\ s # <<>>
    /\ \A i \in 1..Len(s) : WordChar(s[i])
    /\ s[1] \notin Digits

\* C4: sanitizeName returns a valid identifier for every input: non-empty,
\* only letters, digits and underscores, not starting with a digit.
C4_SanitizedIsIdentifier ==
    (tool = "sanitizeName" /\ pc = "returned") => IsIdentifier(res)

\* a base name none of whose characters survives sanitizing
SanitizesToEmpty(base) ==
    \A i \in 1..Len(base) : base[i] \notin Lower \cup Upper \cup Digits

\* C5: a file whose base name sanitizes to the empty string gets the table
\* name default_table.
C5_DefaultTableName ==
    (/\ tool = "to_sqlite" /\ tableName # <<>>
     /\ SanitizesToEmpty(SubSeq(dir[idx].name, 1, Len(dir[idx].name) - 4)))
        => tableName = default_table

\* the row the importer must insert for a record under a header of h fields
RowMatches(row, record, h) ==
    /\ Len(row) = h
    /\ \A i \in 1..h : row[i] = IF i <= Len(record) THEN record[i] ELSE <<>>

\* C6: every inserted row has exactly as many values as the header has
\* fields, value i being the record's field i or, past the record's end, the
\* empty string; a file that succeeds has inserted one row per data record.
C6_PadOrTruncate ==
    tool = "to_sqlite" =>
        /\ Len(txRows) <= Len(records)
        /\ \A k \in 1..Len(txRows) : RowMatches(txRows[k], records[k], Len(header))
        /\ (pc \in {"deferred", "returned"} /\ retErr = Nil)
              => insertedRows = Len(records)
        /\ (pc = "returned" /\ retErr = Nil /\ err = Nil)
              => persisted[idx] = Len(records)

\* C6 witness: a short record and a long record have both been inserted.
C6_Witness ==
    /\ tool = "to_sqlite" /\ pc = "read"
    /\ Len(txRows) = 2
    /\ Len(records[1]) < Len(header)
    /\ Len(records[2]) > Len(header)

CsvFiles == {i \in 1..Len(dir) : ~dir[i].isDir /\ HasSuffix(dir[i].name, DotCsv)}

\* C7 as stated: getFileNames returns one entry per regular file whose name
\* ends in ".csv", the file named ".csv" included, and the importer selects
\* the same files.
C7_EnumeratesEveryCsv ==
    (tool = "getFileNames" /\ pc = "returned") =>
        /\ Len(res) = Cardinality(CsvFiles)
        /\ {res[k].FullPath : k \in 1..Len(res)}
              = {srcDir \o Slash \o arg[k].name : k \in 1..Len(arg)}

LongCsvFiles == {i \in CsvFiles : Len(dir[i].name) > 4}

\* C7 amended: getFileNames returns, in directory order, one entry per regular
\* file whose name ends in ".csv" and is longer than 4 characters, with the
\* name minus its last 4 characters and directory/name as path; a file named
\* exactly ".csv" is left out by getFileNames and selected by the importer,
\* which is the only difference between the two selections.
C7_EnumeratesLongCsv ==
    (tool = "getFileNames" /\ pc = "returned") =>
        /\ Len(res) = Cardinality(LongCsvFiles)
        /\ \A i \in LongCsvFiles :
              LET k == Cardinality({j \in LongCsvFiles : j <= i})
              IN  /\ res[k].NameWithoutExt \o DotCsv = dir[i].name
                  /\ res[k].FullPath = srcDir \o Slash \o dir[i].name
        /\ {arg[k].name : k \in 1..Len(arg)}
              = {dir[i].name : i \in LongCsvFiles}
                \cup {dir[i].name : i \in {j \in CsvFiles : dir[j].name = DotCsv}}

\* C7 witness: a directory holding ".csv" and another csv file has been listed.
C7_Witness ==
    /\ tool = "getFileNames" /\ pc = "returned"
    /\ \E i \in 1..Len(dir) : dir[i] = File(DotCsv)
    /\ Len(res) >= 1
    /\ Len(arg) = Len(res) + 1

\* C8: in the converter the first failure ends the process at once with a
\* non-zero status: nothing of a later file has been read, and no workbook
\* has been written.
C8_FirstFailureIsFatal ==
    (tool = "to_xlsx" /\ errLog # "") =>
        /\ pc = "exited"
        /\ exitCode # 0
        /\ saved = <<>>
        /\ \A f \in 1..Len(fileMetadata) : f > idx => content[f] = <<>>

\* C8 witness: a cell write failed in the first of two files.
C8_Witness ==
    /\ tool = "to_xlsx" /\ pc = "exited"
    /\ errLog = "Failed to set cell value"
    /\ Len(fileMetadata) = 2 /\ idx = 1
    /\ Len(content[1]) = 2

\* the cells a file's lines must produce
SheetHolds(sheet, lines) ==
    /\ DOMAIN sheet.cells =
          {CoordinatesToCellName(j, i) : <<i, j>> \in
              {<<i, j>> \in (1..Len(lines)) \X (1..MaxFields) : j <= Len(Split(lines[i]))}}
    /\ \A i \in 1..Len(lines) : \A j \in 1..Len(Split(lines[i])) :
          sheet.cells[CoordinatesToCellName(j, i)] = Split(lines[i])[j]

\* C9: the saved workbook holds exactly one sheet per input file, named after
\* the file, each cell (j, i) being token j of line i; also with Sheet1.csv
\* among the input files.
C9_OneSheetPerFile ==
    (tool = "to_xlsx" /\ saved # <<>>) =>
        LET wb == saved[1]
        IN  /\ Len(wb) = Len(fileMetadata)
            /\ \A f \in 1..Len(fileMetadata) :
                  \E s \in 1..Len(wb) :
                      /\ wb[s].name = fileMetadata[f].NameWithoutExt
                      /\ SheetHolds(wb[s], content[f])

\* C10: a file's handle is closed, and its transaction ended by exactly one
\* commit or rollback, before the next file starts or the tool stops; never
\* are two handles open.
C10_ResourcesReleased ==
    /\ Cardinality(handles) <= 1
    /\ pc \in {"exited", "done"} => handles = {}
    /\ (tool = "to_xlsx" /\ pc = "sheet") => handles = {}
    /\ (tool = "to_sqlite" /\ pc \in {"loop", "returned", "exited", "done"}) =>
          /\ handles = {}
          /\ ~tx.open
          /\ tx.begun => tx.commits + tx.rollbacks = 1

====
